---- MODULE Spec2Model ----
(***************************************************************************)
(* Contact management bot (agent.py): the command loop of main(), the      *)
(* three decorated handlers add_contact / update_contact /                 *)
(* get_users_phone, the input_error decorator, parse_input and             *)
(* validate_phone.                                                         *)
(*                                                                         *)
(* A Python str is a sequence of code points; a code point is written as a *)
(* one-character TLA+ string, except the two non-ASCII code points         *)
(* "U+0149" and "U+02BC".  A formatted message (an f-string) is the        *)
(* concatenation of its pieces: literal pieces are kept as one element,    *)
(* interpolated strings contribute their code points.                      *)
(***************************************************************************)
EXTENDS Integers, Sequences, FiniteSets, TLC

VARIABLES USERS,       \* the module-level dict USERS (username -> phone)
          running,     \* TRUE while main() is inside `while True`
          user_input,  \* main(): the stripped line read by input()
          command,     \* main(): first component of parse_input()
          args,        \* main(): second component of parse_input()
          result,      \* main(): value returned by the dispatched handler
          printed,     \* lines written to stdout during the last iteration
          phone,       \* validate_phone(phone): argument of a direct call
          raised       \* validate_phone(phone): outcome of that call

vars == <<USERS, running, user_input, command, args, result, printed, phone, raised>>

----------------------------------------------------------------------------
(* Bounds of the model *)

\* longest run of digits in a generated phone (two runs per phone)
MaxRun == 8
\* largest number of argument tokens on a generated input line
MaxArgs == 3

----------------------------------------------------------------------------
(* Python values *)

PyNone == [isNone |-> TRUE, text |-> <<>>]
PyStr(s) == [isNone |-> FALSE, text |-> s]
\* truthiness as tested by `if result:`
Truthy(v) == ~v.isNone /\ v.text # <<>>

----------------------------------------------------------------------------
(* Module constants of agent.py *)

IDENT == " "
BOT_COLOR == "<Fore.YELLOW>"
BOT_ERROR_COLOR == "<Fore.RED>"
HELP_MAIN_TEXT == "<Fore.LIGHTGREEN_EX>"
RESET_ALL == "<Style.RESET_ALL>"

HelpEntry(usage, text) ==
    <<HELP_MAIN_TEXT, BOT_COLOR, usage, HELP_MAIN_TEXT, text, RESET_ALL>>

COMMANDS_HELP_INFO ==
    [k \in {"hello", "add", "change", "phone", "all", "exit or close"} |->
        CASE k = "hello" -> HelpEntry("'hello' ", "just to get nice greeting :)")
          [] k = "add" -> HelpEntry("'add <username> <phone number>' ",
                                    "to add user with it's phone.'")
          [] k = "change" -> HelpEntry("'change <username> <phone number>' ",
                                       "to update username's phone.'")
          [] k = "phone" -> HelpEntry("'phone <username>' ", "to get phone of the user.")
          [] k = "all" -> HelpEntry("'all' ", "to get get list of all users and their phones")
          [] OTHER -> HelpEntry("'close' or 'exit' ", " to stop the assistant.")]

FUNC_COMMAND_MAP ==
    [f \in {"add_contact", "update_contact", "get_users_phone"} |->
        CASE f = "add_contact" -> "add"
          [] f = "update_contact" -> "change"
          [] OTHER -> "phone"]

ERR_NAME_AND_PHONE == <<"Give me name and phone please.">>

----------------------------------------------------------------------------
(* Code points and the str methods the program uses *)

UPPER == <<"A","B","C","D","E","F","G","H","I","J","K","L","M",
           "N","O","P","Q","R","S","T","U","V","W","X","Y","Z">>
LOWER == <<"a","b","c","d","e","f","g","h","i","j","k","l","m",
           "n","o","p","q","r","s","t","u","v","w","x","y","z">>

\* str.isspace per code point: the whitespace split(), strip() and \s act on
Whitespace == {" ", "\t"}
IsSpace(c) == c \in Whitespace

\* str.isdigit per code point
IsDigitChar(c) == c \in {"0","1","2","3","4","5","6","7","8","9"}

\* lower-case mapping of one code point (U+0149 is lower case, U+02BC has no case)
LowerChar(c) ==
    IF \E i \in 1..26 : UPPER[i] = c
    THEN LOWER[CHOOSE i \in 1..26 : UPPER[i] = c]
    ELSE c

\* full title-case mapping of one code point, a string of one or more code
\* points: U+0149 (n preceded by apostrophe) maps to U+02BC followed by N
TitleChar(c) ==
    IF \E i \in 1..26 : LOWER[i] = c
    THEN <<UPPER[CHOOSE i \in 1..26 : LOWER[i] = c]>>
    ELSE IF c = "U+0149" THEN <<"U+02BC", "N">>
    ELSE <<c>>

\* str.lower()
Lower(s) == [i \in 1..Len(s) |-> LowerChar(s[i])]

\* mutant of Capitalize: the rest of the name keeps its case
CapitalizeFirstOnly(s) == IF s = <<>> THEN <<>> ELSE TitleChar(Head(s)) \o Tail(s)

\* str.capitalize(): first code point title-cased, the rest lower-cased
Capitalize(s) == IF s = <<>> THEN <<>> ELSE TitleChar(Head(s)) \o Lower(Tail(s))

RECURSIVE LStrip(_)
LStrip(s) == IF s # <<>> /\ IsSpace(Head(s)) THEN LStrip(Tail(s)) ELSE s

RECURSIVE RStrip(_)
RStrip(s) ==
    IF s # <<>> /\ IsSpace(s[Len(s)]) THEN RStrip(SubSeq(s, 1, Len(s) - 1)) ELSE s

\* str.strip()
Strip(s) == RStrip(LStrip(s))

\* str.split(): the maximal runs of non-whitespace, in order
RECURSIVE SplitFrom(_, _, _)
SplitFrom(s, i, cur) ==
    IF i > Len(s)
    THEN IF cur = <<>> THEN <<>> ELSE <<cur>>
    ELSE IF IsSpace(s[i])
         THEN (IF cur = <<>> THEN <<>> ELSE <<cur>>) \o SplitFrom(s, i + 1, <<>>)
         ELSE SplitFrom(s, i + 1, Append(cur, s[i]))

Split(s) == SplitFrom(s, 1, <<>>)

\* re.sub(r"[\s\-\(\)\+\.]", "", phone)
IsFormatting(c) == IsSpace(c) \/ c \in {"-", "(", ")", "+", "."}

Cleaned(p) == SelectSeq(p, LAMBDA c : ~IsFormatting(c))

\* str.isdigit(): non-empty and every code point a digit
IsDigit(s) == s # <<>> /\ \A i \in 1..Len(s) : IsDigitChar(s[i])

----------------------------------------------------------------------------
(* parse_input *)

\* mutant of ParseInput: the command keeps its case
ParseInputKeepsCase(line) ==
    LET parts == Split(line)
    IN  IF parts = <<>>
        THEN [cmd |-> <<>>, args |-> <<>>]
        ELSE [cmd |-> Strip(Head(parts)), args |-> Tail(parts)]

ParseInput(line) ==
    LET parts == Split(line)
    IN  IF parts = <<>>
        THEN [cmd |-> <<>>, args |-> <<>>]
        ELSE [cmd |-> Lower(Strip(Head(parts))), args |-> Tail(parts)]

----------------------------------------------------------------------------
(* validate_phone *)

MinDigits == 10
MaxDigits == 15

\* outcome of a call: exc = "none" when it returned, else the exception type;
\* value is the returned value, or e.args[0] of the raised exception
Returns(v) == [exc |-> "none", value |-> v]
Raises(type, message) == [exc |-> type, value |-> PyStr(message)]

NotCalled == [exc |-> "not called", value |-> PyNone]

InvalidFormat(p) ==
    Raises("ValueError",
           <<"Phone '">> \o p \o <<"' is not matching valid format. ",
                                    "Should be digits only, 10 to 15 length.">>)

\* mutant of ValidatePhone: the upper length bound is exclusive
ValidatePhoneExclusiveMax(p) ==
    LET cleaned == Cleaned(p)
    IN  IF ~(IsDigit(cleaned) /\ MinDigits <= Len(cleaned) /\ Len(cleaned) < MaxDigits)
        THEN InvalidFormat(p)
        ELSE Returns(PyNone)

\* mutant of ValidatePhone: only the length is checked
ValidatePhoneLengthOnly(p) ==
    LET cleaned == Cleaned(p)
    IN  IF ~(MinDigits <= Len(cleaned) /\ Len(cleaned) <= MaxDigits)
        THEN InvalidFormat(p)
        ELSE Returns(PyNone)

ValidatePhone(p) ==
    LET cleaned == Cleaned(p)
    IN  IF ~(IsDigit(cleaned) /\ MinDigits <= Len(cleaned) /\ Len(cleaned) <= MaxDigits)
        THEN InvalidFormat(p)
        ELSE Returns(PyNone)

----------------------------------------------------------------------------
(* print helpers *)

PrintError(message) == <<IDENT, BOT_ERROR_COLOR>> \o message \o <<RESET_ALL>>
PrintSuccess(message) == <<IDENT, BOT_COLOR>> \o message \o <<RESET_ALL>>

\* print_dict_as_list: the lines it prints; the table tabulate() renders is
\* kept as one piece followed by its headers
PrintDictAsList(keys, headers) ==
    IF keys = {}
    THEN <<PrintError(<<"There is no records yet.">>)>>
    ELSE << <<"<rounded_outline table>">> \o headers >>

----------------------------------------------------------------------------
(* Handlers.  A handler's outcome is [exc, value, users, out]: how it ended, *)
(* what it returned or raised, the dict USERS it leaves, the lines printed.  *)

Outcome(o, users, out) == [exc |-> o.exc, value |-> o.value, users |-> users, out |-> out]

\* mutant of SetItem: the cleaned phone is stored
SetItemCleaned(users, username, p) ==
    [k \in DOMAIN users \cup {username} |-> IF k = username THEN Cleaned(p) ELSE users[k]]

\* mutant of SetItem: the dict is replaced by the one entry
SetItemReplacesAll(users, username, p) == [k \in {username} |-> p]

\* USERS[username] = phone
SetItem(users, username, p) ==
    [k \in DOMAIN users \cup {username} |-> IF k = username THEN p ELSE users[k]]

\* mutant of AddContactBody: an existing username is overwritten
AddContactOverwrites(a, users) ==
    IF Len(a) # 2
    THEN Outcome(Raises("ValueError", ERR_NAME_AND_PHONE), users, <<>>)
    ELSE LET v == ValidatePhone(a[2])
         IN  IF v.exc # "none"
             THEN Outcome(v, users, <<>>)
             ELSE Outcome(Returns(PyStr(<<IDENT, BOT_COLOR, "Contact added.", RESET_ALL>>)),
                          SetItem(users, Capitalize(a[1]), a[2]), <<>>)

\* body of add_contact, before the decorator
AddContactBody(a, users) ==
    IF Len(a) # 2
    THEN Outcome(Raises("ValueError", ERR_NAME_AND_PHONE), users, <<>>)
    ELSE LET name == a[1]
             p == a[2]
             username == Capitalize(name)
             v == ValidatePhone(p)
         IN  IF v.exc # "none"
             THEN Outcome(v, users, <<>>)
             ELSE IF username \in DOMAIN users
                  THEN Outcome(Returns(PyNone), users,
                         <<PrintError(<<"User '">> \o username
                              \o <<"' already exists with phone ">> \o users[username]
                              \o <<". ", "Use 'change ">> \o username
                              \o <<" <new_phone>' to update, or use a different username.">>)>>)
                  ELSE Outcome(Returns(PyStr(<<IDENT, BOT_COLOR, "Contact added.", RESET_ALL>>)),
                               SetItem(users, username, p), <<>>)

\* mutant of UpdateContactBody: a missing username is inserted
UpdateContactUpserts(a, users) ==
    IF Len(a) # 2
    THEN Outcome(Raises("ValueError", ERR_NAME_AND_PHONE), users, <<>>)
    ELSE LET v == ValidatePhone(a[2])
         IN  IF v.exc # "none"
             THEN Outcome(v, users, <<>>)
             ELSE Outcome(Returns(PyStr(<<IDENT, BOT_COLOR, "Contact updated.", RESET_ALL>>)),
                          SetItem(users, Capitalize(a[1]), a[2]), <<>>)

\* mutant of UpdateContactBody: the name is looked up as typed
UpdateContactAsTyped(a, users) ==
    IF Len(a) # 2
    THEN Outcome(Raises("ValueError", ERR_NAME_AND_PHONE), users, <<>>)
    ELSE LET username == a[1]
             v == ValidatePhone(a[2])
         IN  IF v.exc # "none"
             THEN Outcome(v, users, <<>>)
             ELSE IF username \notin DOMAIN users
                  THEN Outcome(Raises("KeyError",
                                 <<"User '">> \o username \o <<"' doesn't exist.">>),
                               users, <<>>)
                  ELSE Outcome(Returns(PyStr(<<IDENT, BOT_COLOR, "Contact updated.", RESET_ALL>>)),
                               SetItem(users, username, a[2]), <<>>)

\* body of update_contact, before the decorator
UpdateContactBody(a, users) ==
    IF Len(a) # 2
    THEN Outcome(Raises("ValueError", ERR_NAME_AND_PHONE), users, <<>>)
    ELSE LET name == a[1]
             p == a[2]
             username == Capitalize(name)
             v == ValidatePhone(p)
         IN  IF v.exc # "none"
             THEN Outcome(v, users, <<>>)
             ELSE IF username \notin DOMAIN users
                  THEN Outcome(Raises("KeyError",
                                 <<"User '">> \o username \o <<"' doesn't exist.">>),
                               users, <<>>)
                  ELSE Outcome(Returns(PyStr(<<IDENT, BOT_COLOR, "Contact updated.", RESET_ALL>>)),
                               SetItem(users, username, p), <<>>)

\* body of get_users_phone, before the decorator
GetUsersPhoneBody(a, users) ==
    IF a = <<>>
    THEN Outcome(Raises("IndexError", <<"Enter user name.">>), users, <<>>)
    ELSE LET username == Capitalize(a[1])
         IN  IF username \notin DOMAIN users
             THEN Outcome(Raises("KeyError",
                            <<"User '">> \o username \o <<"' doesn't exist.">>),
                          users, <<>>)
             ELSE Outcome(Returns(PyStr(<<IDENT, BOT_COLOR>> \o username
                             \o <<"'s phone is ">> \o users[username] \o <<RESET_ALL>>)),
                          users, <<>>)

\* mutant of InputError: every ValueError counts as a usage error
InputErrorHintsValueErrors(func_name, o) ==
    IF o.exc \in {"ValueError", "KeyError", "IndexError"}
    THEN LET cmd_key == IF func_name \in DOMAIN FUNC_COMMAND_MAP
                        THEN FUNC_COMMAND_MAP[func_name] ELSE "None"
             is_usage_error == o.exc \in {"IndexError", "ValueError"}
             hint == IF cmd_key # "None" /\ is_usage_error
                     THEN <<"\n">> \o COMMANDS_HELP_INFO[cmd_key]
                     ELSE <<>>
         IN  [o EXCEPT !.exc = "none",
                       !.value = PyStr(<<IDENT, BOT_ERROR_COLOR>> \o o.value.text
                                        \o <<RESET_ALL>> \o hint)]
    ELSE o

\* input_error.inner: func_name is func.__name__, o the outcome of func(*args)
InputError(func_name, o) ==
    IF o.exc \in {"ValueError", "KeyError", "IndexError"}
    THEN LET cmd_key == IF func_name \in DOMAIN FUNC_COMMAND_MAP
                        THEN FUNC_COMMAND_MAP[func_name] ELSE "None"
             is_usage_error == o.exc = "IndexError" \/ o.value.text = ERR_NAME_AND_PHONE
             hint == IF cmd_key # "None" /\ is_usage_error
                     THEN <<"\n">> \o COMMANDS_HELP_INFO[cmd_key]
                     ELSE <<>>
         IN  [o EXCEPT !.exc = "none",
                       !.value = PyStr(<<IDENT, BOT_ERROR_COLOR>> \o o.value.text
                                        \o <<RESET_ALL>> \o hint)]
    ELSE o

\* the decorated handlers
add_contact(a, users) == InputError("add_contact", AddContactBody(a, users))
update_contact(a, users) == InputError("update_contact", UpdateContactBody(a, users))
get_users_phone(a, users) == InputError("get_users_phone", GetUsersPhoneBody(a, users))

----------------------------------------------------------------------------
(* Input lines offered to input() *)

S_add == <<"a","d","d">>
S_change == <<"c","h","a","n","g","e">>
S_phone == <<"p","h","o","n","e">>
S_hello == <<"h","e","l","l","o">>
S_all == <<"a","l","l">>
S_help == <<"h","e","l","p">>
S_close == <<"c","l","o","s","e">>
S_exit == <<"e","x","i","t">>

\* user names typed on the command line
N_bob == <<"b","o","b">>
N_BOB == <<"B","O","B">>
N_al == <<"a","l">>
N_napos == <<"U+0149">>
N_aposN == <<"U+02BC","N">>
Names == {N_bob, N_BOB, N_al, N_napos, N_aposN}

\* phones typed on the command line
P_plain == <<"1","2","3","4","5","6","7","8","9","0">>
P_fmt == <<"+","1","(","2","3","4",")","5","6","7","-","8","9","0","1">>
P_short == <<"1","2","3">>
P_alpha == <<"1","2","3","4","5","a","6","7","8","9","0">>
LinePhones == {P_plain, P_fmt, P_short, P_alpha}

\* first words of a line: the three handler commands get every argument list,
\* the other words a few
HandlerWords == {S_add, S_change, S_phone}
OtherWords == {S_hello, S_all, S_help, S_close, S_exit,
               <<"E","X","I","T">>, <<"C","l","o","s","e">>,
               <<"A","D","D">>, <<"f","o","o">>}

\* the first k of: name, phone, then filler tokens
ArgTokens(n, p, k) == SubSeq(<<n, p>> \o [i \in 1..MaxArgs |-> <<"x">>], 1, k)

RECURSIVE Join(_, _)
Join(tokens, sep) ==
    IF tokens = <<>> THEN <<>>
    ELSE IF Len(tokens) = 1 THEN tokens[1]
    ELSE tokens[1] \o sep \o Join(Tail(tokens), sep)

\* a raw line: the tokens with whitespace around and between them
Render(tokens, lead, sep, trail) == lead \o Join(tokens, sep) \o trail

\* add and change with a name and a phone
TwoArgLines ==
    {Render(<<w, n, p>>, <<>>, <<" ">>, <<>>) :
        w \in {S_add, S_change}, n \in Names, p \in LinePhones}

\* phone with a name
OneArgLines ==
    {Render(<<S_phone, n>>, <<>>, <<" ">>, <<>>) : n \in Names}

\* the handler commands with each number of arguments up to MaxArgs, the
\* other first words with none and with one
ArityLines ==
    {Render(<<w>> \o ArgTokens(N_bob, P_plain, k), <<>>, <<" ">>, <<>>) :
        w \in HandlerWords, k \in 0..MaxArgs}
    \cup {Render(<<w>> \o ArgTokens(N_bob, P_plain, k), <<>>, <<" ">>, <<>>) :
        w \in OtherWords, k \in 0..1}

\* lines with leading, trailing and repeated whitespace, and empty lines
MessyLines ==
    {Render(<<w>> \o ArgTokens(N_bob, P_fmt, k), <<" ", "\t">>, <<"\t", " ">>, <<" ">>) :
        w \in {S_add, S_phone, S_exit}, k \in {0, 2}}
    \cup {<<>>, <<" ", "\t">>}

InputLines == TwoArgLines \cup OneArgLines \cup ArityLines \cup MessyLines

----------------------------------------------------------------------------
(* main *)

Init ==
    /\ USERS = <<>>
    /\ running = TRUE
    /\ user_input = <<>>
    /\ command = <<>>
    /\ args = <<>>
    /\ result = PyNone
    /\ printed = << <<BOT_COLOR, "Welcome to the assistant bot!", RESET_ALL>> >>
    /\ phone = <<>>
    /\ raised = NotCalled

\* the `commands` dict of main(): the outcome of commands[command](args)
Commands == {S_hello, S_add, S_change, S_phone, S_all, S_help}

Dispatch(cmd, a, users) ==
    CASE cmd = S_hello ->
            Outcome(Returns(PyNone), users, <<PrintSuccess(<<"How can I help you?">>)>>)
      [] cmd = S_add -> add_contact(a, users)
      [] cmd = S_change -> update_contact(a, users)
      [] cmd = S_phone -> get_users_phone(a, users)
      [] cmd = S_all ->
            Outcome(Returns(PyNone), users, PrintDictAsList(DOMAIN users, <<"User", "Phone">>))
      [] cmd = S_help ->
            Outcome(Returns(PyNone), users,
                    PrintDictAsList(DOMAIN COMMANDS_HELP_INFO, <<"Command", "Usage">>))

\* one iteration of `while True`, reading the raw line `line`
Iteration(line) ==
    /\ running
    /\ user_input' = Strip(line)
    /\ \E parsed \in {ParseInput(Strip(line))} :
           /\ command' = parsed.cmd
           /\ args' = parsed.args
           /\ IF parsed.cmd \in {S_close, S_exit}
              THEN /\ printed' = << <<BOT_COLOR, "Good bye!", RESET_ALL>> >>
                   /\ running' = FALSE
                   /\ UNCHANGED <<USERS, result>>
              ELSE IF parsed.cmd \in Commands
              THEN \E o \in {Dispatch(parsed.cmd, parsed.args, USERS)} :
                       /\ USERS' = o.users
                       /\ result' = o.value
                       /\ printed' = o.out \o (IF Truthy(o.value) THEN <<o.value.text>> ELSE <<>>)
                       /\ UNCHANGED running
              ELSE IF parsed.cmd # <<>>
              THEN /\ printed' = <<PrintError(<<"Invalid command. Please use one of the list below:">>)>>
                                  \o PrintDictAsList(DOMAIN COMMANDS_HELP_INFO, <<"Command", "Usage">>)
                   /\ UNCHANGED <<USERS, running, result>>
              ELSE /\ printed' = <<>>
                   /\ UNCHANGED <<USERS, running, result>>
    /\ UNCHANGED <<phone, raised>>

Next == \E line \in InputLines : Iteration(line)

Spec == Init /\ [][Next]_vars

----------------------------------------------------------------------------
(* Direct calls of validate_phone on generated phone strings *)

Rep(c, n) == [i \in 1..n |-> c]

\* what may follow a run of digits: nothing, a formatting character, another
\* whitespace character, a letter, another symbol
Decor == {<<>>, <<" ">>, <<"\t">>, <<"-">>, <<"(">>, <<")">>, <<"+">>, <<".">>,
          <<"a">>, <<"#">>}

PhoneInputs ==
    {Rep("1", a) \o s \o Rep("0", b) \o t : a \in 0..MaxRun, b \in 0..MaxRun,
                                              s \in Decor, t \in Decor}

InitValidate ==
    /\ USERS = <<>>
    /\ running = TRUE
    /\ user_input = <<>>
    /\ command = <<>>
    /\ args = <<>>
    /\ result = PyNone
    /\ printed = <<>>
    /\ phone \in PhoneInputs
    /\ raised = NotCalled

CallValidatePhone ==
    /\ raised = NotCalled
    /\ raised' = ValidatePhone(phone)
    /\ UNCHANGED <<USERS, running, user_input, command, args, result, printed, phone>>

NextValidate == CallValidatePhone

SpecValidate == InitValidate /\ [][NextValidate]_vars

----------------------------------------------------------------------------
(* Vocabulary of the properties *)

\* text contains the pieces of `part`, consecutively
Contains(text, part) ==
    \E i \in 0..(Len(text) - Len(part)) : SubSeq(text, i + 1, i + Len(part)) = part

AddedMsg == <<IDENT, BOT_COLOR, "Contact added.", RESET_ALL>>
UpdatedMsg == <<IDENT, BOT_COLOR, "Contact updated.", RESET_ALL>>
NotFoundText(n) == <<"User '">> \o Capitalize(n) \o <<"' doesn't exist.">>
PhoneIsText(n, p) == Capitalize(n) \o <<"'s phone is ">> \o p

\* a value returned by a handler is an error message
IsError(v) == ~v.isNone /\ Len(v.text) >= 2 /\ v.text[2] = BOT_ERROR_COLOR

\* what `phone n` answers on the store `users`
PhoneReply(n, users) == get_users_phone(<<n>>, users).value

\* the digits-only, 10 to 15 reading of a phone once the characters in
\* `removed` are dropped
AcceptedWhenRemoving(p, removed) ==
    LET rest == SelectSeq(p, LAMBDA c : c \notin removed)
    IN  /\ rest # <<>>
        /\ \A i \in 1..Len(rest) : rest[i] \in {"0","1","2","3","4","5","6","7","8","9"}
        /\ Len(rest) >= 10
        /\ Len(rest) <= 15

Punctuation == {"-", "(", ")", "+", "."}

\* the verdict of a finished direct call agrees with the reading that drops `removed`
VerdictMatches(removed) ==
    raised # NotCalled =>
        /\ (raised.exc = "none") <=> AcceptedWhenRemoving(phone, removed)
        /\ raised.exc # "none" =>
              /\ raised.exc = "ValueError"
              /\ Contains(raised.value.text, <<"Phone '">> \o phone \o <<"' is not matching valid format. ">>)

----------------------------------------------------------------------------
(* C5 *)

\* C5 as stated: validate_phone accepts exactly when, after removing every
\* space, hyphen, parenthesis, plus sign and period, the rest is non-empty,
\* all digits and 10 to 15 long; a rejection is a validation error whose
\* message holds the original phone string.
C5_AcceptsAfterRemovingSpaces == VerdictMatches({" "} \cup Punctuation)

\* C5 amended: the same, with every whitespace character removed (space, tab
\* and the others \s matches), not the space alone.
C5_AcceptsAfterRemovingWhitespace == VerdictMatches(Whitespace \cup Punctuation)

\* a finished call that accepted a phone holding a space and punctuation
C5_Witness ==
    /\ raised.exc = "none"
    /\ \E i \in 1..Len(phone) : phone[i] = " "
    /\ \E i \in 1..Len(phone) : phone[i] = "-"
    /\ Len(Cleaned(phone)) = 15

----------------------------------------------------------------------------
(* C9 *)

\* C9: every phone held in the store passes validate_phone, that is, holds 10
\* to 15 digits once spaces, hyphens, parentheses, plus signs and periods are
\* removed.
C9_StoredPhonesValid ==
    \A k \in DOMAIN USERS :
        /\ ValidatePhone(USERS[k]).exc = "none"
        /\ AcceptedWhenRemoving(USERS[k], {" "} \cup Punctuation)

\* a store holding a phone with punctuation, written by change
C9_Witness ==
    /\ command = S_change
    /\ result = PyStr(UpdatedMsg)
    /\ \E k \in DOMAIN USERS : USERS[k] = P_fmt
    /\ \E k \in DOMAIN USERS : USERS[k] = P_plain

----------------------------------------------------------------------------
(* C7 *)

HasHintOf(text, key) ==
    LET h == <<"\n">> \o COMMANDS_HELP_INFO[key]
    IN  Len(text) >= Len(h) /\ SubSeq(text, Len(text) - Len(h) + 1, Len(text)) = h

HasHint(text) == \E key \in DOMAIN COMMANDS_HELP_INFO : HasHintOf(text, key)

OwnKey(cmd) == CASE cmd = S_add -> "add" [] cmd = S_change -> "change" [] OTHER -> "phone"

UsageError(cmd, a) ==
    \/ cmd \in {S_add, S_change} /\ Len(a) # 2
    \/ cmd = S_phone /\ a = <<>>

\* C7: a failing add, change or phone returns an error message carrying a
\* usage hint exactly when the failure is a usage error (add/change with an
\* argument count other than 2, phone with no argument), the hint being the
\* one of its own command; validation and not-found failures carry none; the
\* no-argument failure of phone ("Enter user name.") differs from the
\* argument-count failure of add/change ("Give me name and phone please.").
C7_HintIffUsageError ==
    (command \in HandlerWords /\ IsError(result)) =>
        /\ HasHint(result.text) <=> UsageError(command, args)
        /\ UsageError(command, args) => HasHintOf(result.text, OwnKey(command))
        /\ (UsageError(command, args) /\ command = S_phone) =>
              /\ Contains(result.text, <<"Enter user name.">>)
              /\ ~Contains(result.text, ERR_NAME_AND_PHONE)
        /\ (UsageError(command, args) /\ command # S_phone) =>
              /\ Contains(result.text, ERR_NAME_AND_PHONE)
              /\ ~Contains(result.text, <<"Enter user name.">>)
        /\ UsageError(command, args) <=>
              ~(\/ Contains(result.text, <<"' is not matching valid format. ">>)
                \/ Contains(result.text, <<"' doesn't exist.">>))

\* a validation failure of add, returned without a hint
C7_Witness ==
    /\ command = S_add
    /\ Len(args) = 2
    /\ IsError(result)
    /\ Contains(result.text, <<"Phone '">> \o P_short)
    /\ ~HasHint(result.text)

----------------------------------------------------------------------------
(* C1 *)

PhoneIsMsg(n, p) == PyStr(<<IDENT, BOT_COLOR>> \o PhoneIsText(n, p) \o <<RESET_ALL>>)

\* the step (to the primed values given) is a successful change of the entry of n
SuccessfulChangeOf(n, cmd, a, res) ==
    /\ cmd = S_change
    /\ res = PyStr(UpdatedMsg)
    /\ Len(a) = 2
    /\ Capitalize(a[1]) = Capitalize(n)

\* C1: `add n p` with n (capitalized) absent and p valid makes `phone n`
\* answer "<Capitalized n>'s phone is p", p being the string that was added;
\* and every step that is not a successful change of n leaves the answer of
\* `phone n` as it was (a step that leaves USERS as it was leaves every
\* answer as it was), so the answer stands after any number of such steps.
C1_AddThenPhone ==
    [][ /\ ( /\ command' = S_add
             /\ Len(args') = 2
             /\ Capitalize(args'[1]) \notin DOMAIN USERS
             /\ ValidatePhone(args'[2]).exc = "none" )
           => /\ result' = PyStr(AddedMsg)
              /\ PhoneReply(args'[1], USERS') = PhoneIsMsg(args'[1], args'[2])
        /\ USERS' # USERS =>
           \A n \in Names :
              ( /\ ~IsError(PhoneReply(n, USERS))
                /\ ~SuccessfulChangeOf(n, command', args', result') )
              => PhoneReply(n, USERS') = PhoneReply(n, USERS)
      ]_vars

\* `phone BOB` answered with the punctuated phone that `add` stored
C1_Witness ==
    /\ command = S_phone
    /\ args = <<N_BOB>>
    /\ result = PhoneIsMsg(N_bob, P_fmt)
    /\ result.text = <<IDENT, BOT_COLOR, "B", "o", "b", "'s phone is ">> \o P_fmt \o <<RESET_ALL>>

----------------------------------------------------------------------------
(* C2 *)

\* C2: `add n p2` with p2 valid and n (capitalized) already stored leaves the
\* store as it was, returns nothing, prints one warning naming the stored
\* phone, and the loop keeps running.
C2_AddExistingKeepsStore ==
    [][ ( /\ command' = S_add
          /\ Len(args') = 2
          /\ ValidatePhone(args'[2]).exc = "none"
          /\ Capitalize(args'[1]) \in DOMAIN USERS )
        => /\ USERS' = USERS
           /\ result' = PyNone
           /\ Len(printed') = 1
           /\ Contains(printed'[1], <<"' already exists with phone ">>
                                     \o USERS[Capitalize(args'[1])] \o <<". ">>)
           /\ running'
      ]_vars

\* after `add` of a stored name with another valid phone: nothing returned,
\* the first phone still stored
C2_Witness ==
    /\ command = S_add
    /\ Len(args) = 2
    /\ result = PyNone
    /\ Len(printed) = 1
    /\ Capitalize(args[1]) \in DOMAIN USERS
    /\ ValidatePhone(args[2]).exc = "none"
    /\ USERS[Capitalize(args[1])] # args[2]
    /\ running

----------------------------------------------------------------------------
(* C3 *)

\* C3 as stated: `change n p` with two arguments and n (capitalized) not
\* stored fails with the not-found error and leaves the store unchanged.
C3_ChangeMissingNotFound ==
    [][ ( /\ command' = S_change
          /\ Len(args') = 2
          /\ Capitalize(args'[1]) \notin DOMAIN USERS )
        => /\ IsError(result')
           /\ Contains(result'.text, NotFoundText(args'[1]))
           /\ USERS' = USERS
      ]_vars

\* C3 amended: `change n p` with two arguments and n (capitalized) not stored
\* leaves the store unchanged; it fails with the not-found error when p
\* passes validation, and with the validation error (not with not-found)
\* when p does not.
C3_ChangeMissingValidPhoneNotFound ==
    [][ ( /\ command' = S_change
          /\ Len(args') = 2
          /\ Capitalize(args'[1]) \notin DOMAIN USERS )
        => /\ IsError(result')
           /\ USERS' = USERS
           /\ ValidatePhone(args'[2]).exc = "none"
                 => Contains(result'.text, NotFoundText(args'[1]))
           /\ ValidatePhone(args'[2]).exc # "none"
                 => /\ ~Contains(result'.text, NotFoundText(args'[1]))
                    /\ Contains(result'.text, <<"Phone '">> \o args'[2])
      ]_vars

\* `change al <valid phone>` on a store without Al, answered not-found
C3_Witness ==
    /\ command = S_change
    /\ args = <<N_al, P_plain>>
    /\ Capitalize(N_al) \notin DOMAIN USERS
    /\ DOMAIN USERS # {}
    /\ IsError(result)
    /\ Contains(result.text, <<"User '", "A", "l", "' doesn't exist.">>)

----------------------------------------------------------------------------
(* C4 *)

\* C4: `change n p` with p valid and n (capitalized) stored returns the
\* success message, makes n map to p (so `phone n` then reports p), keeps the
\* set of usernames and the phone of every other username.
C4_ChangeExistingOverwrites ==
    [][ ( /\ command' = S_change
          /\ Len(args') = 2
          /\ ValidatePhone(args'[2]).exc = "none"
          /\ Capitalize(args'[1]) \in DOMAIN USERS )
        => /\ result' = PyStr(UpdatedMsg)
           /\ DOMAIN USERS' = DOMAIN USERS
           /\ USERS'[Capitalize(args'[1])] = args'[2]
           /\ PhoneReply(args'[1], USERS') = PhoneIsMsg(args'[1], args'[2])
           /\ \A k \in DOMAIN USERS : k # Capitalize(args'[1]) => USERS'[k] = USERS[k]
      ]_vars

\* after a successful change of Bob in a store that holds other names too
C4_Witness ==
    /\ command = S_change
    /\ result = PyStr(UpdatedMsg)
    /\ args = <<N_BOB, P_fmt>>
    /\ Capitalize(N_bob) \in DOMAIN USERS
    /\ USERS[Capitalize(N_bob)] = P_fmt
    /\ \E k \in DOMAIN USERS : k # Capitalize(N_bob) /\ USERS[k] = P_plain

----------------------------------------------------------------------------
(* C6 *)

\* two code points are the same letter in either case, or the same code point
SameLetter(c, d) == c = d \/ \E i \in 1..26 : {c, d} = {UPPER[i], LOWER[i]}

\* two spellings that differ at most in letter case
SameIgnoringCase(a, b) ==
    Len(a) = Len(b) /\ \A i \in 1..Len(a) : SameLetter(a[i], b[i])

IsAscii(name) == \A i \in 1..Len(name) : name[i] \notin {"U+0149", "U+02BC"}

\* the names a statement about case covers: all, or the ASCII ones
Covered(asciiOnly, name) == asciiOnly => IsAscii(name)

\* usernames are matched case-insensitively, for the covered names: no two
\* stored names differ only in case, a stored name is its own normalization,
\* normalizing the name a handler was just given twice gives what normalizing
\* it once gives, and every spelling of that name gets the answer that name
\* gets (the phone just stored, after a successful add or change)
CaseInsensitive(asciiOnly) ==
    /\ \A k1 \in DOMAIN USERS : \A k2 \in DOMAIN USERS :
          ( /\ Covered(asciiOnly, k1)
            /\ Covered(asciiOnly, k2)
            /\ SameIgnoringCase(k1, k2) ) => k1 = k2
    /\ \A k \in DOMAIN USERS : Covered(asciiOnly, k) => Capitalize(k) = k
    /\ (command \in HandlerWords /\ args # <<>> /\ Covered(asciiOnly, args[1])) =>
          Capitalize(Capitalize(args[1])) = Capitalize(args[1])
    /\ (command \in HandlerWords /\ args # <<>> /\ Covered(asciiOnly, args[1])) =>
          \A m \in Names :
              (Covered(asciiOnly, m) /\ SameIgnoringCase(m, args[1])) =>
                  /\ Capitalize(m) = Capitalize(args[1])
                  /\ PhoneReply(m, USERS) = PhoneReply(args[1], USERS)
                  /\ result \in {PyStr(AddedMsg), PyStr(UpdatedMsg)}
                        => PhoneReply(m, USERS) = PhoneIsMsg(args[1], args[2])

\* C6 as stated: for any two spellings of a name that differ only in letter
\* case, add, change and phone address the same single entry; the store never
\* holds two names that differ only in case; normalizing a normalized name
\* gives the same name.
C6_CaseInsensitiveAllNames == CaseInsensitive(FALSE)

\* C6 amended: the same, for usernames made of ASCII characters.
C6_CaseInsensitiveAsciiNames == CaseInsensitive(TRUE)

\* `add BOB` stored the entry and the spelling `bob` is answered from it
C6_Witness ==
    /\ command = S_add
    /\ args = <<N_BOB, P_fmt>>
    /\ result = PyStr(AddedMsg)
    /\ DOMAIN USERS = {<<"B", "o", "b">>}
    /\ PhoneReply(N_bob, USERS) = PhoneIsMsg(N_BOB, P_fmt)

----------------------------------------------------------------------------
(* C8 *)

\* first whitespace-delimited word of a stripped line, lower-cased
FirstWordLower(u) ==
    LET j == CHOOSE j \in 0..Len(u) :
                 /\ \A k \in 1..j : u[k] \notin Whitespace
                 /\ (j = Len(u) \/ u[j + 1] \in Whitespace)
    IN  [i \in 1..j |-> IF \E x \in 1..26 : UPPER[x] = u[i]
                        THEN LOWER[CHOOSE x \in 1..26 : UPPER[x] = u[i]]
                        ELSE u[i]]

\* C8: the loop leaves RUNNING for TERMINATED exactly on a line whose first
\* token, lower-cased, is close or exit; every other line leaves it RUNNING;
\* once TERMINATED nothing changes any more.
C8_OnlyExitTerminates ==
    [][ /\ running' # running =>
              /\ running
              /\ ~running'
              /\ FirstWordLower(user_input') \in {S_close, S_exit}
        /\ (running /\ FirstWordLower(user_input') \in {S_close, S_exit}) => ~running'
        /\ ~running => UNCHANGED vars
      ]_vars

\* terminated by EXIT typed in upper case, with contacts in the store
C8_Witness ==
    /\ ~running
    /\ user_input = <<"E", "X", "I", "T">>
    /\ command = S_exit
    /\ DOMAIN USERS # {}
    /\ printed = << <<BOT_COLOR, "Good bye!", RESET_ALL>> >>

----------------------------------------------------------------------------
(* C10 *)

Inserted == DOMAIN USERS' \ DOMAIN USERS
Replaced == {k \in DOMAIN USERS \cap DOMAIN USERS' : USERS'[k] # USERS[k]}

\* C10: the store changes only by a successful add, which inserts exactly one
\* username that was absent, or by a successful change, which replaces the
\* phone of exactly one username that was present; no username is ever
\* removed; every other line (phone, all, hello, help, empty, unrecognized,
\* a rejected add or change) leaves the store unchanged.
C10_StoreChangesOnlyByAddOrChange ==
    [][ /\ DOMAIN USERS \subseteq DOMAIN USERS'
        /\ USERS' # USERS =>
              \/ /\ command' = S_add
                 /\ result' = PyStr(AddedMsg)
                 /\ Inserted = {Capitalize(args'[1])}
                 /\ Replaced = {}
                 /\ USERS'[Capitalize(args'[1])] = args'[2]
              \/ /\ command' = S_change
                 /\ result' = PyStr(UpdatedMsg)
                 /\ Inserted = {}
                 /\ Replaced = {Capitalize(args'[1])}
                 /\ USERS'[Capitalize(args'[1])] = args'[2]
        /\ (command' = S_add /\ result' = PyStr(AddedMsg)) =>
              (Cardinality(Inserted) = 1 /\ Replaced = {})
        /\ (command' = S_change /\ result' = PyStr(UpdatedMsg)) =>
              (Inserted = {} /\ Replaced \subseteq {Capitalize(args'[1])})
        /\ (command' \notin {S_add, S_change}
              \/ result' \notin {PyStr(AddedMsg), PyStr(UpdatedMsg)}) => USERS' = USERS
      ]_vars

\* a rejected change (invalid phone) on a store that add and change filled
C10_Witness ==
    /\ command = S_change
    /\ args = <<N_bob, P_alpha>>
    /\ IsError(result)
    /\ Cardinality(DOMAIN USERS) >= 2
    /\ Capitalize(N_bob) \in DOMAIN USERS
    /\ USERS[Capitalize(N_bob)] = P_fmt

====
